---- MODULE Spec2Model ----
(***************************************************************************)
(* Model of src/src/index.ts: the ArchiveDatabase skip-chain navigator,    *)
(* search (indexBlockFor) and point lookup (indexItem).                    *)
(*                                                                         *)
(* The tip store and the block store are external.  Their content is       *)
(* fixed for the duration of one operation; the model draws the content of *)
(* a record the first time the operation fetches it and keeps it from then *)
(* on, so that every fetch of the same id answers the same.  Blocks only   *)
(* point to blocks with a greater id: chains are finite and acyclic.  The  *)
(* entries of header.nextBlocks are ordered by level, a higher level       *)
(* skipping at least as far as the levels below; an entry can be empty.    *)
(***************************************************************************)
EXTENDS Integers, Sequences, FiniteSets

\* ---- bounds of the model ------------------------------------------------
NumBlocks == 3        \* block ids 1..NumBlocks, 1 is the tip's block
MaxLevels == 3        \* longest header.nextBlocks
MaxItem == 2          \* items are 1..MaxItem
MaxData == 2          \* longest block.data
MaxCalls == 8         \* store calls are counted up to MaxCalls

BlockIds == 1..NumBlocks
Items == 1..MaxItem
TipBlockId == 1

\* Sequences over S of length 0..n.
SeqUpTo(S, n) == UNION {[1..k -> S] : k \in 0..n}

\* ---- data shapes ----------------------------------------------------------
\* ArchiveIndex.sorter of the one registered index: a numeric comparator.
sorter(a, b) == a - b

\* `indices` of the constructor: the registry holds one index.
indices == {"idx"}
IndexKeys == {"idx", "nope"}

\* A null block / a null item.
NullBlock == [id |-> 0, data |-> <<>>, nextBlocks |-> <<>>]
NoItem == 0

\* What is known of a stored block: not fetched yet, absent, or its content.
Unknown == [state |-> "unknown", data |-> <<>>, nextBlocks |-> <<>>]
Missing == [state |-> "missing", data |-> <<>>, nextBlocks |-> <<>>]

\* An entry of header.nextBlocks that names no block (an empty id): the test
\* of line 198 is false for it.
NoId == 0
AllIds == BlockIds \cup {NoId}

\* A block points to blocks with a greater id, further from the tip.
Targets(id) == ((id + 1)..NumBlocks) \cup {NoId}

\* How far along the chain a pointer reaches; an empty entry reaches past the
\* end.  A pointer of a higher level reaches at least as far as the pointers
\* of the levels below it.
Reach(t) == IF t = NoId THEN NumBlocks + 1 ELSE t

Contents(id) ==
    {[state |-> "present", data |-> d, nextBlocks |-> nb] :
        d \in SeqUpTo(Items, MaxData),
        nb \in {q \in SeqUpTo(Targets(id), MaxLevels) :
                  \A k \in 1..(Len(q) - 1) : Reach(q[k]) <= Reach(q[k + 1])}}

\* Array.prototype.sort(index.sorter): a stable insertion sort.
RECURSIVE InsertSorted(_, _)
InsertSorted(s, x) ==
    IF s = <<>> THEN <<x>>
    ELSE IF sorter(x, Head(s)) < 0 THEN <<x>> \o s
    ELSE <<Head(s)>> \o InsertSorted(Tail(s), x)

RECURSIVE sort(_)
sort(s) == IF s = <<>> THEN <<>> ELSE InsertSorted(sort(SubSeq(s, 1, Len(s) - 1)), s[Len(s)])

\* sorted.eq(list, value, cmp): binary search, the index (1-based) or 0.
RECURSIVE eqSearch(_, _, _, _)
eqSearch(list, value, btm, top) ==
    IF top < btm THEN 0
    ELSE LET mid == (top + btm) \div 2
             c == sorter(list[mid], value)
         IN IF c = 0 THEN mid
            ELSE IF c >= 0 THEN eqSearch(list, value, btm, mid - 1)
            ELSE eqSearch(list, value, mid + 1, top)

eq(list, value) == eqSearch(list, value, 1, Len(list))

VARIABLES
    strictOrdering,  \* options.strictOrdering
    op,              \* the operation running
    indexKey,        \* findX(indexKey, ..)
    item,            \* the queried item, NoItem for operations without one
    height,          \* getNextBlock(block, height)
    tipRec,          \* the tip store's record: "unknown", "null", "noBlockId", "tip"
    blocks,          \* the block store, as far as fetched
    pc,              \* position in the operation
    block,           \* `block` of indexBlockFor / argument of getNextBlock
    i,               \* level cursor of indexBlockFor
    ascending,       \* `ascending` of indexBlockFor
    result,          \* the block a block-returning operation returned
    found,           \* the item indexItem returned
    error,           \* the failure the operation ended with
    thrown,          \* the failure a store call raised
    tipCalls,        \* calls of tipDatabase.getTip
    blockCalls,      \* calls of blockDatabase.getBlock / getBlockHeader
    failures,        \* store calls that failed
    lastMove         \* history: the last change of the cursor

vars == <<strictOrdering, op, indexKey, item, height, tipRec, blocks, pc, block, i,
          ascending, result, found, error, thrown, tipCalls, blockCalls, failures,
          lastMove>>


Ops == {"findTipBlock", "getTipBlock", "getNextBlock", "findBlockFor", "indexBlockFor",
        "findItem", "indexItem"}
FindOps == {"findTipBlock", "findBlockFor", "findItem"}
ItemOps == {"findBlockFor", "indexBlockFor", "findItem", "indexItem"}

NoError == "none"
UnknownIndex == "unknown index"
UseGetTipBlock == "use getTipBlock() w/o strictOrdering"
TipStoreFailure == "tip store failure"
BlockStoreFailure == "block store failure"

\* Mutant: the sort is skipped whatever options.strictOrdering says.
IndexedBlockUnsorted(id, c) ==
    [id |-> id, data |-> c.data, nextBlocks |-> c.nextBlocks]

\* The object getTipBlock and getNextBlock build from a fetched block: the
\* data sorted in place unless options.strictOrdering, and the header.  It has
\* no nextBlocksFirstKey.
IndexedBlock(id, c) ==
    [id |-> id,
     data |-> IF strictOrdering THEN c.data ELSE sort(c.data),
     nextBlocks |-> c.nextBlocks]

\* What blockDatabase.getBlock(id) can answer: the block as fetched before, or,
\* on the first fetch, any content or no block.
Fetched(id) ==
    IF blocks[id].state = "unknown" THEN Contents(id) \cup {Missing} ELSE {blocks[id]}

Min(a, b) == IF a < b THEN a ELSE b

\* One more store call, counted.
Count(n) == IF n < MaxCalls THEN n + 1 ELSE n

\* Mutant: the `indice < 0` test of line 235 is missing.
findIndexAny(key) == TRUE

\* findIndex: the index registered under the name, or the unknown-index error.
findIndex(key) == key \in indices

Init ==
    /\ strictOrdering \in BOOLEAN
    /\ op \in Ops
    /\ indexKey \in (IF op \in FindOps THEN IndexKeys ELSE {"idx"})
    /\ item \in (IF op \in ItemOps THEN Items ELSE {NoItem})
    /\ height \in (IF op = "getNextBlock" THEN 0..(MaxLevels - 1) ELSE {0})
    /\ tipRec = "unknown"
    \* getNextBlock's argument is a block the navigator returned before.
    /\ \E id \in BlockIds : \E c \in Contents(id) :
          IF op = "getNextBlock"
          THEN /\ blocks = [b \in AllIds |-> IF b = id THEN c ELSE Unknown]
               /\ block = IndexedBlock(id, c)
          ELSE /\ blocks = [b \in AllIds |-> Unknown]
               /\ block = NullBlock
    /\ pc = (IF op \in FindOps THEN "start"
             ELSE IF op = "getNextBlock" THEN "getNext" ELSE "getTip")
    /\ i = 0
    /\ ascending = TRUE
    /\ result = NullBlock
    /\ found = NoItem
    /\ error = NoError
    /\ thrown = NoError
    /\ tipCalls = 0
    /\ blockCalls = 0
    /\ failures = 0
    /\ lastMove = "none"

\* A synchronous throw of the operation itself (lines 140, 235).
Throw(e) ==
    /\ pc' = "failed"
    /\ error' = e
    /\ UNCHANGED <<op, thrown, failures>>

\* Mutant: the rejection is caught and the call issued again.
PropagateRetry(e) ==
    /\ pc' = pc
    /\ error' = error

\* A store call rejects: nothing catches it, the operation rejects with it.
Propagate(e) ==
    /\ pc' = "failed"
    /\ error' = e

StoreThrows(e) ==
    /\ thrown' = e
    /\ failures' = Count(failures)
    /\ Propagate(e)

\* ---- findTipBlock / findBlockFor / findItem: lines 139-143, 185-188, 221-224
findTipBlock ==
    /\ op = "findTipBlock" /\ pc = "start"
    /\ IF ~strictOrdering THEN Throw(UseGetTipBlock)
       ELSE IF ~findIndex(indexKey) THEN Throw(UnknownIndex)
       ELSE /\ op' = "getTipBlock"
            /\ pc' = "getTip"
            /\ UNCHANGED <<error, thrown, failures>>
    /\ UNCHANGED <<strictOrdering, indexKey, item, height, tipRec, blocks, block, i,
                   ascending, result, found, tipCalls, blockCalls, lastMove>>

findBlockFor ==
    /\ op = "findBlockFor" /\ pc = "start"
    /\ IF ~findIndex(indexKey) THEN Throw(UnknownIndex)
       ELSE /\ op' = "indexBlockFor"
            /\ pc' = "getTip"
            /\ UNCHANGED <<error, thrown, failures>>
    /\ UNCHANGED <<strictOrdering, indexKey, item, height, tipRec, blocks, block, i,
                   ascending, result, found, tipCalls, blockCalls, lastMove>>

findItem ==
    /\ op = "findItem" /\ pc = "start"
    /\ IF ~findIndex(indexKey) THEN Throw(UnknownIndex)
       ELSE /\ op' = "indexItem"
            /\ pc' = "getTip"
            /\ UNCHANGED <<error, thrown, failures>>
    /\ UNCHANGED <<strictOrdering, indexKey, item, height, tipRec, blocks, block, i,
                   ascending, result, found, tipCalls, blockCalls, lastMove>>

\* ---- getTipBlock: lines 148-159 --------------------------------------------
\* getTipBlock returned b to its caller: the operation itself, or
\* indexBlockFor (lines 192-196), itself possibly called by indexItem (227-228).
TipBlockReturned(b) ==
    IF op = "getTipBlock"
    THEN /\ result' = b /\ pc' = "done"
         /\ UNCHANGED <<block, i, ascending, found>>
    ELSE IF b = NullBlock
    THEN /\ result' = NullBlock /\ found' = NoItem /\ pc' = "done"
         /\ UNCHANGED <<block, i, ascending>>
    ELSE /\ block' = b
         /\ i' = Len(b.nextBlocks) - 1
         /\ ascending' = TRUE
         /\ pc' = "loop"
         /\ UNCHANGED <<result, found>>

\* Mutant: `if (!tip) return null`, the record's blockId is not looked at.
HasBlockIdOrNoTip(t) == t # "null"

\* line 154, `tip?.blockId`: the tip store answered a record with a block id.
HasBlockId(t) == t = "tip"

\* line 153-154: await index.tipDatabase.getTip(..); if (!tip?.blockId) return null
getTip ==
    /\ pc = "getTip"
    /\ tipCalls' = Count(tipCalls)
    /\ \/ /\ StoreThrows(TipStoreFailure)
          /\ UNCHANGED <<tipRec, block, i, ascending, result, found>>
       \/ /\ \E t \in {"null", "noBlockId", "tip"} :
                /\ tipRec' = t
                /\ IF HasBlockId(t)
                   THEN /\ pc' = "getBlock"
                        /\ UNCHANGED <<block, i, ascending, result, found>>
                   ELSE TipBlockReturned(NullBlock)
          /\ UNCHANGED <<error, thrown, failures>>
    /\ UNCHANGED <<strictOrdering, op, indexKey, item, height, blocks, blockCalls,
                   lastMove>>

\* line 155-158: await index.blockDatabase.getBlock(tip.blockId, options) ...
getTipBlock ==
    /\ pc = "getBlock"
    /\ blockCalls' = Count(blockCalls)
    /\ \/ /\ StoreThrows(BlockStoreFailure)
          /\ UNCHANGED <<blocks, block, i, ascending, result, found>>
       \/ /\ \E c \in Fetched(TipBlockId) :
                /\ blocks' = [blocks EXCEPT ![TipBlockId] = c]
                /\ TipBlockReturned(IF c.state = "missing" THEN NullBlock
                                    ELSE IndexedBlock(TipBlockId, c))
          /\ UNCHANGED <<error, thrown, failures>>
    /\ UNCHANGED <<strictOrdering, op, indexKey, item, height, tipRec, tipCalls,
                   lastMove>>

\* ---- getNextBlock: lines 165-183 -------------------------------------------
\* What getNextBlock(b, h) returns once the store answered c for
\* b.header.nextBlocks[h]: null for no block, else the indexed block.
NextBlockOf(id, c) ==
    IF c.state = "missing" THEN NullBlock ELSE IndexedBlock(id, c)

\* The operation getNextBlock(block, height) called on its own.
getNextBlock ==
    /\ op = "getNextBlock" /\ pc = "getNext"
    /\ IF Len(block.nextBlocks) < 1
       THEN \* line 170: no fetch
            /\ result' = NullBlock /\ pc' = "done"
            /\ UNCHANGED <<blocks, blockCalls, error, thrown, failures>>
       ELSE /\ blockCalls' = Count(blockCalls)
            /\ \/ /\ StoreThrows(BlockStoreFailure)
                  /\ UNCHANGED <<blocks, result>>
               \/ /\ IF height + 1 > Len(block.nextBlocks) \/ block.nextBlocks[height + 1] = NoId
                     THEN \* nextBlocks[height] is undefined or empty: no such block
                          /\ result' = NullBlock
                          /\ UNCHANGED blocks
                     ELSE LET id == block.nextBlocks[height + 1] IN
                          \E c \in Fetched(id) :
                             /\ blocks' = [blocks EXCEPT ![id] = c]
                             /\ result' = NextBlockOf(id, c)
                  /\ pc' = "done"
                  /\ UNCHANGED <<error, thrown, failures>>
    /\ UNCHANGED <<strictOrdering, op, indexKey, item, height, tipRec, block, i,
                   ascending, found, tipCalls, lastMove>>

\* ---- indexBlockFor: lines 190-219 ------------------------------------------
\* line 197, `i >= 0` is false: line 218, return block -- to the caller of
\* indexBlockFor, or to indexItem (line 227).
forExit ==
    /\ pc = "loop" /\ i < 0
    /\ IF op = "indexBlockFor"
       THEN result' = block /\ pc' = "done"
       ELSE pc' = "eq" /\ UNCHANGED result
    /\ UNCHANGED <<strictOrdering, op, indexKey, item, height, tipRec, blocks, block, i,
                   ascending, found, error, thrown, tipCalls, blockCalls, failures,
                   lastMove>>

\* line 198, `current.nextBlocks[i]` is undefined: the for statement's i--,
\* ascending = false.
whileExit ==
    /\ pc = "loop" /\ i >= 0
    /\ (i + 1 > Len(block.nextBlocks) \/ block.nextBlocks[i + 1] = NoId)
    /\ i' = i - 1
    /\ ascending' = FALSE
    /\ lastMove' = "drop"
    /\ UNCHANGED <<strictOrdering, op, indexKey, item, height, tipRec, blocks, pc, block,
                   result, found, error, thrown, tipCalls, blockCalls, failures>>

\* Mutant: `nextBlock.data[0]` is compared without the `!nextBlock?.data?.length` test.
StopsNoNullCheck(nextBlock) ==
    /\ Len(nextBlock.data) > 0
    /\ sorter(nextBlock.data[1], item) >= 0

\* Mutant: the comparator's arguments are swapped.
StopsReversed(nextBlock) ==
    \/ nextBlock = NullBlock
    \/ Len(nextBlock.data) = 0
    \/ sorter(item, nextBlock.data[1]) >= 0

\* Mutant: `> 0` instead of `>= 0`.
StopsStrict(nextBlock) ==
    \/ nextBlock = NullBlock
    \/ Len(nextBlock.data) = 0
    \/ sorter(nextBlock.data[1], item) > 0

\* line 204: the test that breaks out of the while loop.
Stops(nextBlock) ==
    \/ nextBlock = NullBlock
    \/ Len(nextBlock.data) = 0
    \/ sorter(nextBlock.data[1], item) >= 0

\* Mutant: the `ascending &&` of line 208 is missing.
RaisesWithoutAscending == i < Len(block.nextBlocks) - 1

\* line 208: the test that raises the cursor instead of adopting nextBlock.
Raises == ascending /\ i < Len(block.nextBlocks) - 1

\* Mutant: line 214 is missing, the cursor is kept.
CursorAfterKeep(nextBlock) == i

\* line 214: the cursor after nextBlock was adopted.
CursorAfter(nextBlock) == Min(i, Len(nextBlock.nextBlocks) - 1)

\* lines 199-215, one pass of the while body.  block.nextBlocksFirstKey is
\* never set on the blocks getTipBlock and getNextBlock build, so line 203
\* fetches the next block.
whileBody ==
    /\ pc = "loop" /\ i >= 0
    /\ i + 1 <= Len(block.nextBlocks) /\ block.nextBlocks[i + 1] # NoId
    /\ blockCalls' = Count(blockCalls)
    /\ \/ /\ StoreThrows(BlockStoreFailure)
          /\ UNCHANGED <<blocks, block, i, ascending, lastMove>>
       \/ /\ LET id == block.nextBlocks[i + 1] IN
             \E c \in Fetched(id) :
                /\ blocks' = [blocks EXCEPT ![id] = c]
                /\ LET nextBlock == NextBlockOf(id, c) IN
                   IF Stops(nextBlock)
                   THEN \* break, then the for statement's i--, ascending = false
                        /\ i' = i - 1
                        /\ ascending' = FALSE
                        /\ lastMove' = "drop"
                        /\ UNCHANGED block
                   ELSE IF Raises
                   THEN /\ i' = i + 1
                        /\ lastMove' = "raise"
                        /\ UNCHANGED <<block, ascending>>
                   ELSE /\ block' = nextBlock
                        /\ i' = CursorAfter(nextBlock)
                        /\ lastMove' = "advance"
                        /\ UNCHANGED ascending
          /\ UNCHANGED <<pc, error, thrown, failures>>
    /\ UNCHANGED <<strictOrdering, op, indexKey, item, height, tipRec, result, found,
                   tipCalls>>

\* ---- indexItem: lines 226-231 ----------------------------------------------
indexItem ==
    /\ op = "indexItem" /\ pc = "eq"
    /\ LET ind == eq(block.data, item) IN
       found' = IF ind < 1 THEN NoItem ELSE block.data[ind]
    /\ result' = block
    /\ pc' = "done"
    /\ UNCHANGED <<strictOrdering, op, indexKey, item, height, tipRec, blocks, block, i,
                   ascending, error, thrown, tipCalls, blockCalls, failures, lastMove>>

Next ==
    \/ findTipBlock
    \/ findBlockFor
    \/ findItem
    \/ getTip
    \/ getTipBlock
    \/ getNextBlock
    \/ forExit
    \/ whileExit
    \/ whileBody
    \/ indexItem

Spec == Init /\ [][Next]_vars

\* indexBlockFor alone, every store call of which completes: the operation
\* runs on after each await.
SearchInit == Init /\ op = "indexBlockFor"

SearchNext ==
    \/ getTip
    \/ getTipBlock
    \/ forExit
    \/ whileExit
    \/ whileBody

FairSpec == SearchInit /\ [][SearchNext]_vars /\ WF_vars(SearchNext)

\* ---- vocabulary of the properties ------------------------------------------
Range(s) == {s[k] : k \in 1..Len(s)}

\* The blocks of the chain the operation has seen.
Present == {b \in BlockIds : blocks[b].state = "present"}

\* The items stored in those blocks.
StoredItems == UNION {Range(blocks[b].data) : b \in Present}

IsAscending(s) == \A k \in 1..(Len(s) - 1) : sorter(s[k], s[k + 1]) <= 0

\* indexBlockFor has returned, to its caller or to indexItem; `block` is what
\* it returned.
BlockForReturned ==
    \/ op = "indexBlockFor" /\ pc = "done"
    \/ op = "indexItem" /\ pc \in {"eq", "done"}

\* The block contains an item that compares equal to x.
Holds(b, x) == \E k \in 1..Len(b.data) : sorter(b.data[k], x) = 0

\* Monotonic capability: a pointer at level k (the k-th of nextBlocks) targets
\* a block that has a pointer at that level as well.
MonotonicCapability ==
    \A b \in Present : \A k \in 1..Len(blocks[b].nextBlocks) :
        LET t == blocks[blocks[b].nextBlocks[k]] IN
        t.state = "present" => Len(t.nextBlocks) >= k

\* b points to no block of the chain: it is the far end from the tip.
IsOldest(b) ==
    \A k \in 1..Len(b.nextBlocks) : blocks[b.nextBlocks[k]].state # "present"

\* ---- C1 ---------------------------------------------------------------------
\* C1 (P2 skip coverage): on a chain that satisfies the monotonic-capability
\* invariant, and whose blocks are non-empty and stored sorted, indexBlockFor for an item
\* stored in some block of the chain returns a block that contains an item
\* comparing equal to it.
C1_SkipCoverage ==
    (/\ BlockForReturned
     /\ MonotonicCapability
     /\ \A b \in Present : blocks[b].data # <<>> /\ IsAscending(blocks[b].data)
     /\ item \in StoredItems)
    => (block # NullBlock /\ Holds(block, item))

\* ---- C2 ---------------------------------------------------------------------
\* C2 (P3 miss correctness): when no stored item compares equal to the queried
\* item indexItem returns null, and indexBlockFor returns a block whenever the
\* tip record and its block exist.
C2_MissCorrectness ==
    /\ (op = "indexItem" /\ pc = "done" /\ item \notin StoredItems) => found = NoItem
    /\ (BlockForReturned /\ tipRec = "tip" /\ blocks[TipBlockId].state = "present")
          => block # NullBlock

\* A miss after a search that met a missing block.
C2_Witness ==
    /\ op = "indexItem" /\ pc = "done"
    /\ item \notin StoredItems
    /\ found = NoItem
    /\ block # NullBlock
    /\ \E b \in BlockIds : blocks[b].state = "missing"

\* ---- C3 ---------------------------------------------------------------------
\* C3 (P6 empty chain): when the tip store answers no record, or a record
\* without a block id, getTipBlock, indexBlockFor and indexItem return null
\* after one tip-store call and no block-store call.
C3_EmptyChain ==
    (tipRec \in {"null", "noBlockId"})
    => /\ pc = "done"
       /\ result = NullBlock
       /\ found = NoItem
       /\ block = NullBlock
       /\ tipCalls = 1
       /\ blockCalls = 0

C3_Witness ==
    /\ op = "indexItem" /\ pc = "done"
    /\ tipRec = "noBlockId"
    /\ result = NullBlock /\ found = NoItem
    /\ tipCalls = 1 /\ blockCalls = 0

C5_FailuresPropagate ==
    [][/\ failures' >= 1 => /\ pc' = "failed"
                            /\ error' = thrown'
                            /\ thrown' \in {TipStoreFailure, BlockStoreFailure}
                            /\ failures' = 1
       /\ failures >= 1 => /\ tipCalls' = tipCalls
                           /\ blockCalls' = blockCalls]_vars

\* A search that failed on its third block fetch.
C5_Witness ==
    /\ op = "indexItem" /\ pc = "failed"
    /\ error = BlockStoreFailure
    /\ failures = 1
    /\ blockCalls = 3

\* ---- C6 ---------------------------------------------------------------------
\* C6 (P1 ordering): without strictOrdering, every block getTipBlock or
\* getNextBlock returns has its items ascending under the index comparator.
C6_Ordering ==
    ~strictOrdering
    => /\ IsAscending(block.data)
       /\ pc = "done" => IsAscending(result.data)

\* getNextBlock returned, sorted, a block that is stored unsorted.
C6_Witness ==
    /\ ~strictOrdering
    /\ op = "getNextBlock" /\ pc = "done"
    /\ result # NullBlock
    /\ ~IsAscending(blocks[result.id].data)
    /\ IsAscending(result.data)

\* ---- C7 ---------------------------------------------------------------------
\* The queried item is smaller than every item stored in the chain.
SmallerThanAll == \A x \in StoredItems : sorter(item, x) < 0

\* C7 as stated: on a chain of non-empty blocks with monotonic capability, for
\* an item smaller than every stored item indexBlockFor adopts no next block
\* and returns the oldest block of the chain.
C7_ReturnsOldest ==
    (/\ BlockForReturned /\ block # NullBlock /\ SmallerThanAll
     /\ MonotonicCapability
     /\ \A b \in Present : blocks[b].data # <<>>)
    => (block.id = TipBlockId /\ IsOldest(block))

\* C7 amended: for an item smaller than every stored item indexBlockFor
\* adopts no next block, never raises the cursor, and returns the tip block.
C7_ReturnsTip ==
    (pc \in {"loop", "eq", "done"} /\ op \in {"indexBlockFor", "indexItem"}
        /\ block # NullBlock /\ SmallerThanAll)
    => (block.id = TipBlockId /\ lastMove \in {"none", "drop"})

\* The tip is returned although it points to a block holding items.
C7_Witness ==
    /\ BlockForReturned /\ block # NullBlock /\ SmallerThanAll
    /\ block.id = TipBlockId
    /\ \E b \in Present : b # TipBlockId /\ blocks[b].data # <<>>

\* ---- C8 ---------------------------------------------------------------------
\* C8 as stated, on a chain with monotonic capability: the cursor is raised
\* only on the step that follows an advance, by one level and once per
\* advance, only when the block has a higher level; after an advance it is the
\* minimum of the previous cursor and the adopted block's highest level.
C8_RaisedOncePerAdvance ==
    [][(pc = "loop" /\ pc' = "loop" /\ MonotonicCapability')
        => /\ i' > i => /\ i' = i + 1
                        /\ lastMove = "advance"
                        /\ i < Len(block.nextBlocks) - 1
           /\ lastMove' = "advance" => i' = Min(i, Len(block'.nextBlocks) - 1)]_vars

\* C8 amended: the cursor is raised by one level per step, only before the
\* first level drop, only when the current block has a higher level, and only
\* on a step that follows an advance or another raise: after one advance it
\* can be raised several times, up to the adopted block's highest level.  A
\* raise adopts no block.  After an advance the cursor is the minimum of the
\* previous cursor and the adopted block's highest level.
C8_RaisedWhileAscending ==
    [][(pc = "loop" /\ pc' = "loop")
        => /\ i' > i => /\ i' = i + 1
                        /\ lastMove \in {"advance", "raise"}
                        /\ ascending /\ ascending'
                        /\ i < Len(block.nextBlocks) - 1
                        /\ block' = block
           /\ lastMove' = "advance" => i' = Min(i, Len(block'.nextBlocks) - 1)
           /\ ~ascending => ~ascending']_vars

\* The tip has one level; the cursor stands at level 2 of the adopted block
\* after two raises.
C8_Witness ==
    /\ pc = "loop"
    /\ Len(blocks[TipBlockId].nextBlocks) = 1
    /\ block.id # TipBlockId
    /\ lastMove = "raise"
    /\ i = 2

\* ---- C9 ---------------------------------------------------------------------
\* C9 (termination): on a finite acyclic chain indexBlockFor eventually
\* returns, or ends with the failure of a store call.
C9_Termination == <>(pc \in {"done", "failed"})

\* A search over a chain with monotonic capability that returned after an
\* advance.
C9_Witness ==
    /\ op = "indexBlockFor" /\ pc = "done"
    /\ MonotonicCapability
    /\ block.id # TipBlockId
    /\ i < 0

\* ---- C10 --------------------------------------------------------------------
\* C10: the block indexBlockFor returns is the tip block or has a first item
\* smaller than the queried item; and it has no level-0 pointer, or that
\* pointer's block is missing or empty or has a first item greater than or
\* equal to the queried item.
C10_Bounding ==
    (BlockForReturned /\ block # NullBlock)
    => /\ \/ block.id = TipBlockId
          \/ Len(block.data) > 0 /\ sorter(block.data[1], item) < 0
       /\ \/ Len(block.nextBlocks) = 0
          \/ block.nextBlocks[1] = NoId
          \/ LET id == block.nextBlocks[1]
                 t == blocks[id]
             IN \/ t.state = "missing"
                \/ /\ t.state = "present"
                   /\ \/ Len(t.data) = 0
                      \/ sorter(IndexedBlock(id, t).data[1], item) >= 0

\* A block adopted by the search is returned; its level-0 pointer targets a
\* block whose first item equals the queried item.
C10_Witness ==
    /\ BlockForReturned
    /\ block.id # TipBlockId
    /\ Len(block.nextBlocks) > 0
    /\ LET id == block.nextBlocks[1]
           t == blocks[id]
       IN /\ t.state = "present"
          /\ Len(t.data) > 0
          /\ sorter(IndexedBlock(id, t).data[1], item) = 0

====
